---- MODULE Spec2Model ----
(***************************************************************************)
(* A model of the SNAIL parameter sweep (optimize_parameters_coupling.py)  *)
(* and of the SNAIL / SNAIL2 elements (snail_solver/elements.py).          *)
(*                                                                         *)
(* Floating point numbers are modelled as exact numbers: rationals         *)
(* [n, d] in lowest terms where the code divides, integers elsewhere.      *)
(* Each part of the program has its own specification over its own         *)
(* variables; the variables of the other parts stay at "off".              *)
(***************************************************************************)
EXTENDS Integers, Sequences, FiniteSets, TLC

VARIABLES
    \* optimize_parameters_coupling.py
    spc,               \* position of the script: sweep, rescale, reshape, plot, done
    alpha_list,        \* line 23
    phi_ext_list,      \* line 24, rescaled in place at line 58
    ai, pj,            \* positions of the two for-loops (1-based)
    spectrum,          \* what the circuit diagonalisation yields for each (alpha, phi_ext)
    snail,             \* the SNAIL built last (line 29)
    cavity_kerr_list,  \* line 20
    max_kerr_list,     \* line 21
    cavity_kerr_array, \* the array the name cavity_kerr_list is rebound to at line 62
    max_kerr_array,    \* the array the name max_kerr_list is rebound to at line 63
    printed,           \* the tuples printed at lines 48-56
    visited,           \* the loop-index pairs whose body has run, in order
    plotted,           \* the arguments of the two pcolormesh calls
    \* the Kerr computation of one grid point (lines 37-45)
    kpc, cavity_evals, kerr,
    \* solve_expansion
    epc, elem, phi_min_0, phi_min, taylor_centre,
    \* truncated_potential
    tin, out1, out2,
    \* SNAIL.solve_expansion -> SNAIL2.inductance
    ipc, iin, Ej_out, Lj_out

sweepVars == <<spc, alpha_list, phi_ext_list, ai, pj, spectrum, snail,
               cavity_kerr_list, max_kerr_list, cavity_kerr_array, max_kerr_array,
               printed, visited, plotted>>
kerrVars == <<kpc, cavity_evals, kerr>>
expVars == <<epc, elem, phi_min_0, phi_min, taylor_centre>>
truncVars == <<tin, out1, out2>>
indVars == <<ipc, iin, Ej_out, Lj_out>>
vars == <<sweepVars, kerrVars, expVars, truncVars, indVars>>

\* the value of a record variable that holds nothing yet
None == [none |-> TRUE]

---------------------------------------------------------------------------
(* Exact arithmetic.                                                       *)
(* An operator that uses an argument more than once binds it with a       *)
(* quantifier over a one-element set first: TLC evaluates a bound variable *)
(* once, and an operator's argument anew at each use when it computes      *)
(* ENABLED.                                                                *)

Abs(x) == IF x < 0 THEN -x ELSE x

RECURSIVE GCD(_, _)
GCD(a, b) == IF b = 0 THEN Abs(a) ELSE GCD(b, a % b)

\* the number n/d (d # 0), in lowest terms with a positive denominator
Frac(n, d) ==
    CHOOSE r \in {[n |-> (IF q < 0 THEN -1 ELSE 1) * (p \div g),
                   d |-> (IF q < 0 THEN -1 ELSE 1) * (q \div g)] :
                  <<p, q, g>> \in {<<n, d, GCD(Abs(n), Abs(d))>>}} : TRUE

FInt(k) == [n |-> k, d |-> 1]

FAdd(x, y) ==
    CHOOSE r \in {Frac(a.n * (b.d \div g) + b.n * (a.d \div g), (a.d \div g) * b.d) :
                  <<a, b, g>> \in {<<x, y, GCD(x.d, y.d)>>}} : TRUE

FNeg(x) == CHOOSE r \in {[n |-> -a.n, d |-> a.d] : a \in {x}} : TRUE

FSub(x, y) == FAdd(x, FNeg(y))

FMul(x, y) ==
    CHOOSE r \in {Frac((a.n \div GCD(Abs(a.n), b.d)) * (b.n \div GCD(Abs(b.n), a.d)),
                       (a.d \div GCD(Abs(b.n), a.d)) * (b.d \div GCD(Abs(a.n), b.d))) :
                  <<a, b>> \in {<<x, y>>}} : TRUE

\* 1 / y, y # 0
FInv(y) == CHOOSE r \in {Frac(b.d, b.n) : b \in {y}} : TRUE

\* x / y, y # 0
FDiv(x, y) == FMul(x, FInv(y))

FAbs(x) == CHOOSE r \in {[n |-> Abs(a.n), d |-> a.d] : a \in {x}} : TRUE

FLeq(x, y) == \E <<a, b>> \in {<<x, y>>} : a.n * b.d <= b.n * a.d

RECURSIVE FSumTo(_, _)
FSumTo(s, k) == IF k = 0 THEN FInt(0) ELSE FAdd(FSumTo(s, k - 1), s[k])

\* s[1] + ... + s[Len(s)]
FSum(s) == CHOOSE r \in {FSumTo(v, Len(v)) : v \in {s}} : TRUE

RECURSIVE FMaxTo(_, _)
FMaxTo(s, k) ==
    IF k = 1 THEN s[1]
    ELSE CHOOSE r \in {IF FLeq(m, s[k]) THEN s[k] ELSE m : m \in {FMaxTo(s, k - 1)}} : TRUE

\* the largest element of the non-empty sequence s
FMax(s) == CHOOSE r \in {FMaxTo(v, Len(v)) : v \in {s}} : TRUE

---------------------------------------------------------------------------
(* The Kerr computation of one grid point:                                 *)
(* optimize_parameters_coupling.py, lines 37-45                            *)

\* bound: the Fock-space truncation (18 at line 16)
fock_trunc == 7
\* bound: the energies fed to the computation are 0..MaxLevel energy steps
MaxLevel == 2

MHz == 1000000
EnergyStep == MHz \div 4

\* line 38: range(fock_trunc - 3), the cavity excitation numbers
NumEvals == fock_trunc - 3

\* line 41: np.real(cavity_evals - cavity_evals[0]) / 1e6
relative_evals(E) ==
    CHOOSE r \in {[i \in 1..Len(v) |-> Frac(v[i] - v[1], MHz)] : v \in {E}} : TRUE

\* x[1:] - x[:-1]
diff(x) ==
    CHOOSE r \in {[i \in 1..(Len(v) - 1) |-> FSub(v[i + 1], v[i])] : v \in {x}} : TRUE

\* line 42
transit_energies(E) == diff(relative_evals(E))

\* line 43
anharm(E) == diff(transit_energies(E))

\* line 44: 1000 * np.average(anharm)
avg_kerr(E) ==
    CHOOSE r \in {FMul(FInt(1000), FDiv(FSum(a), FInt(Len(a)))) :
                  a \in {anharm(E)}} : TRUE

\* line 45 without np.abs
max_kerr_signed(E) ==
    FMul(FInt(1000), FMax(anharm(E)))

\* line 45: 1000 * np.max(np.abs(anharm))
max_kerr(E) ==
    CHOOSE r \in {FMul(FInt(1000), FMax([i \in 1..Len(a) |-> FAbs(a[i])])) :
                  a \in {anharm(E)}} : TRUE

\* every spectrum of NumEvals energies over the levels
CavityEvals ==
    [1..NumEvals -> {k * EnergyStep : k \in 0..MaxLevel}]

KerrInit ==
    /\ kpc = "evals"
    /\ cavity_evals \in CavityEvals
    /\ kerr = None

\* lines 41-45, for the eigenenergies of lines 37-39
KerrCompute ==
    /\ kpc = "evals"
    /\ kpc' = "kerr"
    /\ kerr' = [anharm |-> anharm(cavity_evals),
                avg_kerr |-> avg_kerr(cavity_evals),
                max_kerr |-> max_kerr(cavity_evals)]
    /\ UNCHANGED cavity_evals
    /\ UNCHANGED <<sweepVars, expVars, truncVars, indVars>>

KerrOff == kpc = "off" /\ cavity_evals = <<>> /\ kerr = None

---------------------------------------------------------------------------
(* The sweep: optimize_parameters_coupling.py, lines 20-84                 *)

\* bounds: the lengths of alpha_list and phi_ext_list (20 and 30 in the script)
MaxAlpha == 2
MaxPhi == 2

\* a number q * (2*pi)^e, q rational: the fluxes of the script are such numbers
TwoPiTimes(q) == [q |-> q, e |-> 1]

\* v / (2 * np.pi) (line 58), v / 2 / np.pi (line 54)
DivTwoPi(v) == [q |-> v.q, e |-> v.e - 1]

\* line 23: np.arange(0.2, 0.4, 0.01), its first len elements
alpha_arange(len) == [k \in 1..len |-> Frac(20 + (k - 1), 100)]

\* line 24: np.arange(0.2 * 2 * np.pi, 0.491 * 2 * np.pi, 0.01 * 2 * np.pi),
\* its first len elements
phi_ext_arange(len) == [k \in 1..len |-> TwoPiTimes(Frac(20 + (k - 1), 100))]

\* Two spectra the diagonalisation may yield: a Kerr oscillator with a
\* constant level shift, and one whose shift grows with the level.
SweepEvals ==
    { [i \in 1..NumEvals |-> 5 * MHz + (i - 1) * 8 * EnergyStep
                              - (i - 1) * (i - 2) * EnergyStep],
      [i \in 1..NumEvals |-> 3 * MHz + (i - 1) * 8 * EnergyStep
                              + (i - 1) * (i - 2) * (i - 3) * EnergyStep] }

\* lines 29-39: the circuit of SNAIL.from_Lj(Lj, n, alpha, phi_ext) and its
\* cavity eigenenergies get_eigenstate({1: i})[0], i in range(fock_trunc - 3)
get_cavity_evals(sn) ==
    IF <<sn.alpha, sn.phi_ext>> \in DOMAIN spectrum
    THEN spectrum[<<sn.alpha, sn.phi_ext>>]
    ELSE [i \in 1..NumEvals |-> 0]

\* an inner loop that stops one element early
advance_short(i, j, ncols) == IF j + 1 < ncols THEN <<i, j + 1>> ELSE <<i + 1, 1>>

\* the for-loops of lines 25-26: the pair after (i, j), columns first
advance(i, j, ncols) == IF j < ncols THEN <<i, j + 1>> ELSE <<i + 1, 1>>

SweepInit ==
    /\ spc = "sweep"
    /\ \E na \in 1..MaxAlpha : alpha_list = alpha_arange(na)
    /\ \E np \in 1..MaxPhi : phi_ext_list = phi_ext_arange(np)
    /\ ai = 1
    /\ pj = 1
    /\ spectrum \in [{<<alpha_list[i], phi_ext_list[j]>> :
                        i \in 1..Len(alpha_list), j \in 1..Len(phi_ext_list)}
                     -> SweepEvals]
    /\ snail = None
    /\ cavity_kerr_list = <<>>
    /\ max_kerr_list = <<>>
    /\ cavity_kerr_array = <<>>
    /\ max_kerr_array = <<>>
    /\ printed = <<>>
    /\ visited = <<>>
    /\ plotted = None

\* the loop body with line 58 moved into it
RescalingIterate ==
    /\ spc = "sweep"
    /\ ai <= Len(alpha_list)
    /\ LET alpha == alpha_list[ai]
           phi_ext == phi_ext_list[pj]
           sn == [alpha |-> alpha, phi_ext |-> phi_ext]
           E == get_cavity_evals(sn)
           nxt == advance(ai, pj, Len(phi_ext_list))
       IN  /\ snail' = sn
           /\ cavity_kerr_list' = Append(cavity_kerr_list, avg_kerr(E))
           /\ max_kerr_list' = Append(max_kerr_list, max_kerr(E))
           /\ printed' = Append(printed, <<avg_kerr(E), max_kerr(E), alpha,
                                           DivTwoPi(phi_ext)>>)
           /\ visited' = Append(visited, <<ai, pj>>)
           /\ ai' = nxt[1]
           /\ pj' = nxt[2]
    /\ phi_ext_list' = [k \in 1..Len(phi_ext_list) |-> DivTwoPi(phi_ext_list[k])]
    /\ UNCHANGED <<spc, alpha_list, spectrum, cavity_kerr_array, max_kerr_array,
                   plotted>>
    /\ UNCHANGED <<kerrVars, expVars, truncVars, indVars>>

\* lines 26-56: one run of the loop body, for alpha_list[ai], phi_ext_list[pj]
Iterate ==
    /\ spc = "sweep"
    /\ ai <= Len(alpha_list)
    /\ LET alpha == alpha_list[ai]
           phi_ext == phi_ext_list[pj]
           sn == [alpha |-> alpha, phi_ext |-> phi_ext]
           E == get_cavity_evals(sn)
           nxt == advance(ai, pj, Len(phi_ext_list))
       IN  /\ snail' = sn
           /\ cavity_kerr_list' = Append(cavity_kerr_list, avg_kerr(E))
           /\ max_kerr_list' = Append(max_kerr_list, max_kerr(E))
           /\ printed' = Append(printed, <<avg_kerr(E), max_kerr(E), alpha,
                                           DivTwoPi(phi_ext)>>)
           /\ visited' = Append(visited, <<ai, pj>>)
           /\ ai' = nxt[1]
           /\ pj' = nxt[2]
    /\ UNCHANGED <<spc, alpha_list, phi_ext_list, spectrum, cavity_kerr_array,
                   max_kerr_array, plotted>>
    /\ UNCHANGED <<kerrVars, expVars, truncVars, indVars>>

\* line 25: alpha_list is exhausted, the sweep is over
LoopExit ==
    /\ spc = "sweep"
    /\ ai > Len(alpha_list)
    /\ spc' = "rescale"
    /\ UNCHANGED <<alpha_list, phi_ext_list, ai, pj, spectrum, snail,
                   cavity_kerr_list, max_kerr_list, cavity_kerr_array,
                   max_kerr_array, printed, visited, plotted>>
    /\ UNCHANGED <<kerrVars, expVars, truncVars, indVars>>

\* line 58: phi_ext_list /= 2 * np.pi, in place
Rescale ==
    /\ spc = "rescale"
    /\ phi_ext_list' = [k \in 1..Len(phi_ext_list) |-> DivTwoPi(phi_ext_list[k])]
    /\ spc' = "reshape"
    /\ UNCHANGED <<alpha_list, ai, pj, spectrum, snail, cavity_kerr_list,
                   max_kerr_list, cavity_kerr_array, max_kerr_array, printed,
                   visited, plotted>>
    /\ UNCHANGED <<kerrVars, expVars, truncVars, indVars>>

\* np.reshape with order="F"
np_reshape_F(list, rows, cols) ==
    [i \in 1..rows |-> [j \in 1..cols |-> list[(j - 1) * rows + i]]]

\* np.reshape(list, (rows, cols)): row-major; a ValueError unless the sizes agree
np_reshape(list, rows, cols) ==
    [i \in 1..rows |-> [j \in 1..cols |-> list[(i - 1) * cols + j]]]

\* lines 59-63
Reshape ==
    /\ spc = "reshape"
    /\ LET rows == Len(alpha_list)
           cols == Len(phi_ext_list)
       IN  /\ Len(cavity_kerr_list) = rows * cols
           /\ Len(max_kerr_list) = rows * cols
           /\ cavity_kerr_array' = np_reshape(cavity_kerr_list, rows, cols)
           /\ max_kerr_array' = np_reshape(max_kerr_list, rows, cols)
    /\ spc' = "plot"
    /\ UNCHANGED <<alpha_list, phi_ext_list, ai, pj, spectrum, snail,
                   cavity_kerr_list, max_kerr_list, printed, visited, plotted>>
    /\ UNCHANGED <<kerrVars, expVars, truncVars, indVars>>

\* lines 65-84: pcolormesh(X, Y, C) draws C[i][j] at (X[j], Y[i])
Plot ==
    /\ spc = "plot"
    /\ plotted' = [X |-> phi_ext_list, Y |-> alpha_list,
                   C1 |-> cavity_kerr_array, C2 |-> max_kerr_array]
    /\ spc' = "done"
    /\ UNCHANGED <<alpha_list, phi_ext_list, ai, pj, spectrum, snail,
                   cavity_kerr_list, max_kerr_list, cavity_kerr_array,
                   max_kerr_array, printed, visited>>
    /\ UNCHANGED <<kerrVars, expVars, truncVars, indVars>>

SweepOff ==
    /\ spc = "off"
    /\ alpha_list = <<>> /\ phi_ext_list = <<>> /\ ai = 0 /\ pj = 0
    /\ spectrum = <<>> /\ snail = None
    /\ cavity_kerr_list = <<>> /\ max_kerr_list = <<>>
    /\ cavity_kerr_array = <<>> /\ max_kerr_array = <<>>
    /\ printed = <<>> /\ visited = <<>> /\ plotted = None

---------------------------------------------------------------------------
(* solve_expansion: snail_solver/elements.py, lines 35-62 (SNAIL) and      *)
(* 153-177 (SNAIL2).                                                       *)
(* Every number is fixed-point here, in units of 1e-4: a flux of 1 rad,    *)
(* a potential of 1 (in units of Ej) and alpha = 1 are all 10000.          *)

\* 1, in units
One == 10000
\* np.pi, in units
Pi == 31416
\* the grid step 0.01 of lines 45 and 163, in units
GridStep == 100

\* np.cos on [0, pi/2], by its Taylor polynomial of degree 8
cos_quarter(r) ==
    LET r2 == (r * r) \div One
        r4 == (r2 * r2) \div One
        r6 == (r4 * r2) \div One
        r8 == ((r6 \div 10) * r2) \div 1000
    IN  One - (r2 \div 2) + (r4 \div 24) - (r6 \div 720) + (r8 \div 40320)

\* np.cos
np_cos(x) ==
    LET r == x % (2 * Pi)
        h == IF r > Pi THEN 2 * Pi - r ELSE r
    IN  IF h > Pi \div 2 THEN -cos_quarter(Pi - h) ELSE cos_quarter(h)

\* SNAIL.potential (lines 24-33)
potential(el, phi) ==
    LET pot_branch1 == -((el.alpha * np_cos(phi)) \div One)
        pot_branch2 == -(el.n * np_cos((el.phi_ext - phi) \div el.n))
    IN  pot_branch1 + pot_branch2

\* SNAIL2.potential (lines 139-151)
SNAIL2_potential(el, phi, norm) ==
    LET pot_branch1 == -((el.alpha * np_cos(phi)) \div One)
        pot_branch2 == -(el.n * np_cos((el.phi_ext - phi) \div el.n))
    IN  IF norm THEN pot_branch1 + pot_branch2
        ELSE el.Ej * (pot_branch1 + pot_branch2)

\* self.potential(phi) of the element el
self_potential(el, phi) ==
    IF el.cls = "SNAIL" THEN potential(el, phi) ELSE SNAIL2_potential(el, phi, TRUE)

\* lines 45, 163: np.arange(-np.pi * n, np.pi * n, 0.01), its element of index i
phi_array(el, i) == -Pi * el.n + GridStep * i

\* the last index of phi_array: its elements are below np.pi * n
phi_array_last(el) == (2 * Pi * el.n - 1) \div GridStep

\* min(self.potential(phi) for phi in phi_array[lo..hi])
RECURSIVE min_potential(_, _, _)
min_potential(el, lo, hi) ==
    IF lo = hi THEN self_potential(el, phi_array(el, lo))
    ELSE LET mid == (lo + hi) \div 2
             a == min_potential(el, lo, mid)
             b == min_potential(el, mid + 1, hi)
         IN  IF a <= b THEN a ELSE b

\* the inputs: n = 2, 3 (the script's), alpha = 0.2, 0.29, 0.39 and
\* phi_ext = 0.2, 0.35, 0.49 times 2*pi (the script's ranges), for both classes
Elements ==
    [cls : {"SNAIL", "SNAIL2"}, n : {2, 3}, alpha : {2000, 2900, 3900},
     phi_ext : {12566, 21991, 30788}, Ej : {2}]

ExpInit ==
    /\ epc = "start"
    /\ elem \in Elements
    /\ phi_min_0 = 0
    /\ phi_min = 0
    /\ taylor_centre = 0

\* lines 45-46, 163-164: the initial guess
Guess ==
    /\ epc = "start"
    /\ phi_min_0' = min_potential(elem, 0, phi_array_last(elem))
    /\ epc' = "guessed"
    /\ UNCHANGED <<elem, phi_min, taylor_centre>>
    /\ UNCHANGED <<sweepVars, kerrVars, truncVars, indVars>>

\* lines 49, 167: minimize(self.potential, phi_min_0) starts at x0 = phi_min_0
MinimizeStart ==
    /\ epc = "guessed"
    /\ phi_min' = phi_min_0
    /\ epc' = "minimizing"
    /\ UNCHANGED <<elem, phi_min_0, taylor_centre>>
    /\ UNCHANGED <<sweepVars, kerrVars, truncVars, indVars>>

\* minimize is a local descent: the iterate moves downhill, 0.01 at a time
MinimizeStep ==
    /\ epc = "minimizing"
    /\ LET here == self_potential(elem, phi_min)
           left == self_potential(elem, phi_min - GridStep)
           right == self_potential(elem, phi_min + GridStep)
       IN  \/ /\ left < here /\ left <= right
              /\ phi_min' = phi_min - GridStep
           \/ /\ right < here /\ right < left
              /\ phi_min' = phi_min + GridStep
    /\ UNCHANGED <<epc, elem, phi_min_0, taylor_centre>>
    /\ UNCHANGED <<sweepVars, kerrVars, truncVars, indVars>>

\* minimize returns once no neighbour is lower: .x[0] is the iterate
MinimizeDone ==
    /\ epc = "minimizing"
    /\ self_potential(elem, phi_min - GridStep) >= self_potential(elem, phi_min)
    /\ self_potential(elem, phi_min + GridStep) >= self_potential(elem, phi_min)
    /\ epc' = "minimized"
    /\ UNCHANGED <<elem, phi_min_0, phi_min, taylor_centre>>
    /\ UNCHANGED <<sweepVars, kerrVars, truncVars, indVars>>

\* lines 52-62, 170-177: the Taylor fit around phi_min, and the return
Fit ==
    /\ epc = "minimized"
    /\ taylor_centre' = phi_min
    /\ epc' = "returned"
    /\ UNCHANGED <<elem, phi_min_0, phi_min>>
    /\ UNCHANGED <<sweepVars, kerrVars, truncVars, indVars>>

---------------------------------------------------------------------------
(* truncated_potential: snail_solver/elements.py, lines 64-99 (SNAIL) and  *)
(* 192-225 (SNAIL2). Coefficients, Ej, fluxes and x are integers here.     *)
(* A polynomial is the sequence of its coefficients, lowest power first.   *)

\* bound: the largest degree asked for
MaxDegree == 4

\* np.poly1d(c): the coefficients with the leading zeros trimmed, one kept
RECURSIVE poly1d(_)
poly1d(c) ==
    IF Len(c) > 1 /\ c[Len(c)] = 0 THEN poly1d(SubSeq(c, 1, Len(c) - 1)) ELSE c

\* len(p), the order of the polynomial
poly_len(p) == Len(p) - 1

\* p[k]: the coefficient of power k, 0 outside 0..order
poly_get(p, k) == IF k > poly_len(p) \/ k < 0 THEN 0 ELSE p[k + 1]

\* Ej * p
poly_scale(Ej, p) == poly1d([i \in 1..Len(p) |-> Ej * p[i]])

\* lines 52-54, 170-172: approximate_taylor_polynomial returns the poly1d of
\* the degree + 1 coefficients it has fitted
taylor_fit(fit) == poly1d(fit)

\* SNAIL2.solve_expansion multiplying the fit by Ej whatever norm is
SNAIL2_expansion_unnormed(fit, Ej, norm) == poly_scale(Ej, taylor_fit(fit))

\* lines 175-177: what SNAIL2.solve_expansion returns for the fit
SNAIL2_expansion(fit, Ej, norm) ==
    poly_scale(IF norm THEN 1 ELSE Ej, taylor_fit(fit))

RECURSIVE Pow(_, _)
Pow(b, e) == IF e = 0 THEN 1 ELSE b * Pow(b, e - 1)

\* sum(coef * (x - phi_0) ** power for the terms)
RECURSIVE sum_terms(_, _, _)
sum_terms(terms, x, phi_0) ==
    IF terms = <<>> THEN 0
    ELSE Head(terms).coef * Pow(x - phi_0, Head(terms).power)
         + sum_terms(Tail(terms), x, phi_0)

\* the x at which the returned functions are evaluated
Xs == {-1, 0, 1, 2, 3}

\* lines 91-97: the terms of the generator, for k in range(len(taylor) + 1 - limit)
SNAIL_terms(taylor_potential, degree, limit, norm, Ej) ==
    [i \in 1..(poly_len(taylor_potential) + 1 - limit) |->
        [power |-> degree - (i - 1),
         coef |-> (IF norm THEN 1 ELSE Ej) * poly_get(taylor_potential, degree - (i - 1))]]

\* lines 219-223
SNAIL2_terms(taylor_potential, degree, limit) ==
    [i \in 1..(poly_len(taylor_potential) + 1 - limit) |->
        [power |-> degree - (i - 1),
         coef |-> poly_get(taylor_potential, degree - (i - 1))]]

\* SNAIL.truncated_potential (lines 64-99), for what solve_expansion returned
SNAIL_truncated(in, norm) ==
    LET taylor_potential == taylor_fit(in.fit)
        phi_0 == IF in.shift THEN in.phi_min ELSE 0
        limit == IF in.nonlinear THEN 3 ELSE 0
        terms == SNAIL_terms(taylor_potential, in.degree, limit, norm, in.Ej)
    IN  [terms |-> terms,
         potential |-> [x \in Xs |-> sum_terms(terms, x, phi_0)],
         a3 |-> poly_get(taylor_potential, 3),
         a4 |-> poly_get(taylor_potential, 4)]

\* SNAIL2.truncated_potential (lines 192-225)
SNAIL2_truncated(in, norm) ==
    LET taylor_potential == SNAIL2_expansion(in.fit, in.Ej, norm)
        phi_0 == IF in.shift THEN in.phi_min ELSE 0
        limit == IF in.nonlinear THEN 3 ELSE 0
        terms == SNAIL2_terms(taylor_potential, in.degree, limit)
    IN  [terms |-> terms,
         potential |-> [x \in Xs |-> sum_terms(terms, x, phi_0)],
         a3 |-> poly_get(taylor_potential, 3),
         a4 |-> poly_get(taylor_potential, 4)]

\* the inputs: the degree, the fitted coefficients of powers 0..degree, Ej,
\* the flux of the expansion and the flags
TruncInputs ==
    UNION {[degree : {d}, fit : [1..(d + 1) -> {-1, 0, 2}], Ej : {2, 3},
            phi_min : {1}, shift : BOOLEAN, nonlinear : BOOLEAN] : d \in 3..MaxDegree}

TruncInit ==
    /\ tin \in TruncInputs
    /\ out1 = [norm \in BOOLEAN |-> None]
    /\ out2 = [norm \in BOOLEAN |-> None]

\* a call of SNAIL.truncated_potential
SNAIL_truncated_potential ==
    /\ tin # None
    /\ \E norm \in BOOLEAN :
          /\ out1[norm] = None
          /\ out1' = [out1 EXCEPT ![norm] = SNAIL_truncated(tin, norm)]
    /\ UNCHANGED <<tin, out2>>
    /\ UNCHANGED <<sweepVars, kerrVars, expVars, indVars>>

\* a call of SNAIL2.truncated_potential
SNAIL2_truncated_potential ==
    /\ tin # None
    /\ \E norm \in BOOLEAN :
          /\ out2[norm] = None
          /\ out2' = [out2 EXCEPT ![norm] = SNAIL2_truncated(tin, norm)]
    /\ UNCHANGED <<tin, out1>>
    /\ UNCHANGED <<sweepVars, kerrVars, expVars, indVars>>

---------------------------------------------------------------------------
(* Junction energy and inductance: SNAIL.solve_expansion, lines 56-62, and *)
(* SNAIL2.inductance, lines 179-190, in exact rational arithmetic.         *)

\* np.pi, by a rational
FPi == Frac(22, 7)

\* lines 57-59: Ej = 1 / 2 / (2 * np.pi * hbar * self.Lj * a2)
\*                    * (flux_quantum / 2 / np.pi) ** 2
SNAIL_Ej(Lj, a2, hbar, flux_quantum) ==
    LET den == FMul(FMul(FMul(FMul(FInt(2), FPi), hbar), Lj), a2)
        phi0 == FDiv(FDiv(flux_quantum, FInt(2)), FPi)
    IN  FMul(FDiv(FDiv(FInt(1), FInt(2)), den), FMul(phi0, phi0))

\* lines 175-177: coefficient 2 of Ej * taylor_potential, Ej = 1 if norm
expansion_a2(Ej, a2, norm) == FMul(IF norm THEN FInt(1) ELSE Ej, a2)

\* line 184 with norm left at its default
inductance_a2_normed(Ej, a2) == expansion_a2(Ej, a2, TRUE)

\* lines 184-185: a2 of self.solve_expansion(degree=degree, norm=False)[1]
inductance_a2(Ej, a2) == expansion_a2(Ej, a2, FALSE)

\* line 188: Lj = 1 / 2 / (2 * np.pi * hbar * a2) * (flux_quantum / 2 / np.pi) ** 2
SNAIL2_Lj(a2, hbar, flux_quantum) ==
    LET den == FMul(FMul(FMul(FInt(2), FPi), hbar), a2)
        phi0 == FDiv(FDiv(flux_quantum, FInt(2)), FPi)
    IN  FMul(FDiv(FDiv(FInt(1), FInt(2)), den), FMul(phi0, phi0))

\* the inputs: Lj, the normalized quadratic coefficient a2 > 0 of the
\* element, and the constants hbar and flux_quantum of helper_functions
IndInputs ==
    [Lj : {Frac(1, 4), FInt(2), Frac(25, 9)},
     a2 : {Frac(1, 10), Frac(1, 3), Frac(1, 2), Frac(3, 2)},
     hbar : {FInt(1), Frac(3, 2)},
     flux_quantum : {FInt(1), FInt(2)}]

IndInit ==
    /\ ipc = "start"
    /\ iin \in IndInputs
    /\ Ej_out = None
    /\ Lj_out = None

\* SNAIL(n, alpha, phi_ext, Lj).solve_expansion()[1]
SNAIL_solve_expansion ==
    /\ ipc = "start"
    /\ Ej_out' = SNAIL_Ej(iin.Lj, iin.a2, iin.hbar, iin.flux_quantum)
    /\ ipc' = "Ej"
    /\ UNCHANGED <<iin, Lj_out>>
    /\ UNCHANGED <<sweepVars, kerrVars, expVars, truncVars>>

\* SNAIL2(Ej, n, alpha, phi_ext).inductance(), for the Ej of the SNAIL
SNAIL2_inductance ==
    /\ ipc = "Ej"
    /\ Lj_out' = SNAIL2_Lj(inductance_a2(Ej_out, iin.a2), iin.hbar, iin.flux_quantum)
    /\ ipc' = "Lj"
    /\ UNCHANGED <<iin, Ej_out>>
    /\ UNCHANGED <<sweepVars, kerrVars, expVars, truncVars>>

ExpOff ==
    /\ epc = "off" /\ elem = None /\ phi_min_0 = 0 /\ phi_min = 0
    /\ taylor_centre = 0

TruncOff == tin = None /\ out1 = <<>> /\ out2 = <<>>

IndOff == ipc = "off" /\ iin = None /\ Ej_out = None /\ Lj_out = None

---------------------------------------------------------------------------
(* Specifications of the sweep and of the Kerr computation *)

SweepSpecInit == SweepInit /\ KerrOff /\ ExpOff /\ TruncOff /\ IndOff

SweepNext == Iterate \/ LoopExit \/ Rescale \/ Reshape \/ Plot

SweepSpec == SweepSpecInit /\ [][SweepNext]_vars

\* The script is one sequential process: it takes its next step whenever it has one.
FairSweepSpec == SweepSpec /\ WF_vars(SweepNext)

KerrSpecInit == KerrInit /\ SweepOff /\ ExpOff /\ TruncOff /\ IndOff

KerrNext == KerrCompute

KerrSpec == KerrSpecInit /\ [][KerrNext]_vars

---------------------------------------------------------------------------
(* Claims about the sweep *)

Rows == Len(alpha_list)
Cols == Len(phi_ext_list)

\* the fluxes of line 24, as they are before line 58
phi_ext_radians == phi_ext_arange(Cols)

\* the pairs of 1..rows x 1..cols, alpha outermost
RowMajorPairs(rows, cols) ==
    [k \in 1..(rows * cols) |-> <<((k - 1) \div cols) + 1, ((k - 1) % cols) + 1>>]

SweepOver == spc \in {"rescale", "reshape", "plot", "done"}

C1_AllPairsOnce ==
    SweepOver =>
        /\ visited = RowMajorPairs(Rows, Cols)
        /\ Len(printed) = Rows * Cols
        /\ Len(cavity_kerr_list) = Rows * Cols
        /\ Len(max_kerr_list) = Rows * Cols

C1_OneAppendPerPair ==
    (spc = "sweep" /\ spc' = "sweep") =>
        \/ UNCHANGED <<visited, cavity_kerr_list, max_kerr_list>>
        \/ /\ Len(visited') = Len(visited) + 1
           /\ Len(cavity_kerr_list') = Len(cavity_kerr_list) + 1
           /\ Len(max_kerr_list') = Len(max_kerr_list) + 1

\* C1: the sweep terminates; when it has, every pair (alpha, phi_ext) of
\* alpha_list x phi_ext_list has been processed exactly once, in row-major
\* order (alpha outermost), and each pair appended exactly one value to
\* cavity_kerr_list and one to max_kerr_list.
C1_SweepTerminates ==
    /\ <>SweepOver
    /\ []C1_AllPairsOnce
    /\ [][C1_OneAppendPerPair]_vars

C1_Witness ==
    /\ spc = "rescale"
    /\ Rows > 1 /\ Cols > 1
    /\ Len(visited) = Rows * Cols

\* the values computed for (alpha_list[i], phi_ext_list[j]), phi_ext in radians
ValueAt(i, j) ==
    LET E == spectrum[<<alpha_arange(Rows)[i], phi_ext_radians[j]>>]
    IN  [avg |-> avg_kerr(E), max |-> max_kerr(E)]

\* C2: between iterations cavity_kerr_list and max_kerr_list both have length
\* k, the number of pairs processed so far, and hold at index i*len(phi_ext_list)+j
\* (0-based) the value computed for (alpha_list[i], phi_ext_list[j]); the
\* reshape to (len(alpha_list), len(phi_ext_list)) is defined and puts that
\* value at row i, column j of both plotted arrays.
C2_ListsAligned ==
    /\ Len(cavity_kerr_list) = Len(visited)
    /\ Len(max_kerr_list) = Len(visited)
    /\ \A i \in 1..Rows : \A j \in 1..Cols :
          (i - 1) * Cols + j <= Len(visited) =>
             /\ cavity_kerr_list[(i - 1) * Cols + j] = ValueAt(i, j).avg
             /\ max_kerr_list[(i - 1) * Cols + j] = ValueAt(i, j).max
    /\ spc = "reshape" => ENABLED Reshape
    /\ spc \in {"plot", "done"} =>
          /\ Len(cavity_kerr_array) = Rows
          /\ Len(max_kerr_array) = Rows
          /\ \A i \in 1..Rows :
                /\ Len(cavity_kerr_array[i]) = Cols
                /\ Len(max_kerr_array[i]) = Cols
                /\ \A j \in 1..Cols :
                      /\ cavity_kerr_array[i][j] = ValueAt(i, j).avg
                      /\ max_kerr_array[i][j] = ValueAt(i, j).max
    /\ spc = "done" =>
          /\ Len(plotted.Y) = Rows /\ Len(plotted.X) = Cols
          /\ \A i \in 1..Rows : \A j \in 1..Cols :
                /\ plotted.Y[i] = alpha_arange(Rows)[i]
                /\ plotted.X[j] = DivTwoPi(phi_ext_radians[j])
                /\ plotted.C1[i][j] = ValueAt(i, j).avg
                /\ plotted.C2[i][j] = ValueAt(i, j).max

C2_Witness ==
    /\ spc = "done"
    /\ Rows > 1 /\ Cols > 1
    /\ ValueAt(1, 2) # ValueAt(2, 1)

\* C7: during the sweep every SNAIL is built with the unscaled element of
\* phi_ext_list (radians) and the printed flux is that element / (2*pi);
\* phi_ext_list is divided by 2*pi only once the last iteration has finished,
\* and before plotting, so the plot axis is in units of 2*pi.
C7_RescaleAfterSweep ==
    /\ spc \in {"sweep", "rescale"} => phi_ext_list = phi_ext_radians
    /\ phi_ext_list # phi_ext_radians => Len(visited) = Rows * Cols
    /\ \A k \in 1..Len(visited) :
          printed[k][4] = DivTwoPi(phi_ext_radians[visited[k][2]])
    /\ visited # <<>> =>
          /\ snail.phi_ext = phi_ext_radians[visited[Len(visited)][2]]
          /\ snail.phi_ext.e = 1
    /\ spc \in {"reshape", "plot", "done"} =>
          \A j \in 1..Cols : phi_ext_list[j] = DivTwoPi(phi_ext_radians[j])
    /\ spc = "done" =>
          \A j \in 1..Cols : plotted.X[j].e = 0 /\ plotted.X[j].q = phi_ext_radians[j].q

C7_Witness ==
    /\ spc = "done"
    /\ Len(visited) > 1
    /\ plotted.X # phi_ext_radians

---------------------------------------------------------------------------
(* Claims about the Kerr computation *)

\* (E[i+2] - 2*E[i+1] + E[i]) / 1e6, E indexed from 0
SecondDifference(E, i) == Frac(E[i + 3] - 2 * E[i + 2] + E[i + 1], MHz)

\* C3: with E[0..fock_trunc-4] the cavity eigenenergies, anharm has exactly
\* fock_trunc-5 entries anharm[i] = (E[i+2] - 2*E[i+1] + E[i]) / 1e6, the
\* average Kerr is 1000 times their mean and the maximum Kerr is 1000 times
\* the largest absolute value among them.
C3_KerrValues ==
    kpc = "kerr" =>
        LET E == cavity_evals
            N == fock_trunc - 5
            a == [i \in 0..(N - 1) |-> SecondDifference(E, i)]
        IN  /\ Len(E) = fock_trunc - 3
            /\ Len(kerr.anharm) = N
            /\ \A i \in 0..(N - 1) : kerr.anharm[i + 1] = a[i]
            /\ FMul(kerr.avg_kerr, FInt(N)) =
                  FMul(FInt(1000), FSum([i \in 1..N |-> a[i - 1]]))
            /\ \E i \in 0..(N - 1) : kerr.max_kerr = FMul(FInt(1000), FAbs(a[i]))
            /\ \A i \in 0..(N - 1) : FLeq(FMul(FInt(1000), FAbs(a[i])), kerr.max_kerr)

C3_Witness ==
    /\ kpc = "kerr"
    /\ cavity_evals[1] # 0
    /\ kerr.avg_kerr.n < 0
    /\ kerr.max_kerr # FAbs(kerr.avg_kerr)

---------------------------------------------------------------------------
(* solve_expansion: specification and claim *)

ExpSpecInit == ExpInit /\ SweepOff /\ KerrOff /\ TruncOff /\ IndOff

ExpNext == Guess \/ MinimizeStart \/ MinimizeStep \/ MinimizeDone \/ Fit

ExpSpec == ExpSpecInit /\ [][ExpNext]_vars

\* the grid points of phi_array at which the potential is lowest
GridArgmin(el) ==
    LET lowest == min_potential(el, 0, phi_array_last(el))
    IN  {phi \in {phi_array(el, i) : i \in 0..phi_array_last(el)} :
            self_potential(el, phi) = lowest}

\* C4: the initial guess handed to the minimizer is a flux, namely the grid
\* point of phi_array at which the potential is lowest, and the Taylor
\* expansion is centred at the flux the minimizer returns from that guess.
C4_GuessIsGridArgmin ==
    /\ epc = "guessed" => phi_min_0 \in GridArgmin(elem)
    /\ epc = "returned" => taylor_centre = phi_min

---------------------------------------------------------------------------
(* truncated_potential: specification and claims *)

TruncSpecInit == TruncInit /\ SweepOff /\ KerrOff /\ ExpOff /\ IndOff

TruncNext == SNAIL_truncated_potential \/ SNAIL2_truncated_potential

TruncSpec == TruncSpecInit /\ [][TruncNext]_vars

\* the results computed so far, each with the norm flag of its call
Results ==
    {[r |-> out1[b], norm |-> b] : b \in {c \in BOOLEAN : out1[c] # None}}
    \cup {[r |-> out2[b], norm |-> b] : b \in {c \in BOOLEAN : out2[c] # None}}

\* the fitted coefficient a_p of power p
FitCoef(p) == tin.fit[p + 1]

Phi0 == IF tin.shift THEN tin.phi_min ELSE 0

Limit == IF tin.nonlinear THEN 3 ELSE 0

\* sum of a_p * (x - phi_0)^p for p in lo..hi
RECURSIVE SumPowers(_, _, _)
SumPowers(lo, hi, x) ==
    IF lo > hi THEN 0 ELSE FitCoef(lo) * Pow(x - Phi0, lo) + SumPowers(lo + 1, hi, x)

\* C5: for every degree >= 3 and every fitted polynomial, leading zero
\* coefficients included, the returned function sums exactly the terms
\* a_p * (x - phi_0)^p for p in 3..degree when nonlinear = True and for p in
\* 0..degree when nonlinear = False, each power once.
C5_SumsLimitToDegree ==
    \A res \in Results :
        LET scale == IF res.norm THEN 1 ELSE tin.Ej
        IN  /\ Len(res.r.terms) = tin.degree - Limit + 1
            /\ {res.r.terms[i].power : i \in 1..Len(res.r.terms)} = Limit..tin.degree
            /\ \A x \in Xs :
                  res.r.potential[x] = scale * SumPowers(Limit, tin.degree, x)

\* C6: with norm = True every term uses the unscaled coefficient; with
\* norm = False the function is the same polynomial with every term
\* multiplied by Ej once; SNAIL and SNAIL2 return functions that agree at
\* every x.
C6_NormAndClassesAgree ==
    /\ \A res \in Results : \A i \in 1..Len(res.r.terms) :
          res.r.terms[i].coef =
             (IF res.norm THEN 1 ELSE tin.Ej) * FitCoef(res.r.terms[i].power)
    /\ (out1[TRUE] # None /\ out1[FALSE] # None) =>
          \A x \in Xs : out1[FALSE].potential[x] = tin.Ej * out1[TRUE].potential[x]
    /\ (out2[TRUE] # None /\ out2[FALSE] # None) =>
          \A x \in Xs : out2[FALSE].potential[x] = tin.Ej * out2[TRUE].potential[x]
    /\ \A b \in BOOLEAN :
          (out1[b] # None /\ out2[b] # None) =>
             \A x \in Xs : out1[b].potential[x] = out2[b].potential[x]

C6_Witness ==
    /\ out1[TRUE] # None /\ out1[FALSE] # None
    /\ out2[TRUE] # None /\ out2[FALSE] # None
    /\ tin.shift /\ tin.nonlinear
    /\ \E x \in Xs : out2[FALSE].potential[x] # 0
    /\ \E x \in Xs : out2[FALSE].potential[x] # out2[TRUE].potential[x]

---------------------------------------------------------------------------
(* Junction energy and inductance: specification and claim *)

IndSpecInit == IndInit /\ SweepOff /\ KerrOff /\ ExpOff /\ TruncOff

IndNext == SNAIL_solve_expansion \/ SNAIL2_inductance

IndSpec == IndSpecInit /\ [][IndNext]_vars

\* K = (flux_quantum / 2pi)^2 / (4 * pi * hbar)
ConstantK ==
    LET phi0 == FDiv(iin.flux_quantum, FMul(FInt(2), FPi))
    IN  FDiv(FMul(phi0, phi0), FMul(FMul(FInt(4), FPi), iin.hbar))

\* C8: for the same a2 > 0, SNAIL(Lj).solve_expansion yields Ej = K / (Lj * a2)
\* and SNAIL2(Ej).inductance() yields Lj = K / (Ej * a2), the original Lj.
C8_InductanceRoundTrip ==
    /\ ipc \in {"Ej", "Lj"} => Ej_out = FDiv(ConstantK, FMul(iin.Lj, iin.a2))
    /\ ipc = "Lj" =>
          /\ Lj_out = FDiv(ConstantK, FMul(Ej_out, iin.a2))
          /\ Lj_out = iin.Lj

C8_Witness ==
    /\ ipc = "Lj"
    /\ iin.a2.n > 0
    /\ iin.Lj.d # 1
    /\ Ej_out # FInt(1)

====
